---------------------------- MODULE Spec2Model ----------------------------
(***************************************************************************)
(* Model of gerabaldi/models/physenvs.py: MeasInstrument, EnvVrtnMdl and   *)
(* PhysTestEnv.                                                            *)
(*                                                                         *)
(* Numbers are integers (exact for Python ints and integer-valued floats). *)
(* A RandomVar is a generator with internal state: a cycle of values and   *)
(* the position of the next draw.  Every draw advances the position, so    *)
(* two successive draws of a non-degenerate variable differ, which is what *)
(* lets a property tell one draw from another.                             *)
(***************************************************************************)
EXTENDS Integers, Sequences, FiniteSets, TLC

VARIABLES
    mdl,     \* the EnvVrtnMdl object under test (SpecVrtn)
    margs,   \* the arguments mdl was constructed with
    vret,    \* outcome of the last EnvVrtnMdl.gen_env_vrtns call
    inst,    \* the MeasInstrument object under test (SpecMeas)
    mret,    \* outcome of the last MeasInstrument.measure call
    heap,    \* the EnvVrtnMdl / MeasInstrument objects a PhysTestEnv refers to
    env,     \* the PhysTestEnv object: its attribute dictionary
    ctor,    \* arguments of the PhysTestEnv construction that produced env
    lret,    \* outcome of the last get_vrtn_mdl / get_meas_instm call
    cret,    \* outcome of the last PhysTestEnv.gen_env_cond_vals call
    cargs    \* arguments of the last PhysTestEnv.gen_env_cond_vals call

vars == <<mdl, margs, vret, inst, mret, heap, env, ctor, lret, cret, cargs>>

-----------------------------------------------------------------------------
(* Bounds of the model *)

MaxLots == 2
MaxChps == 2
MaxDevs == 2
MaxSensors == 2

-----------------------------------------------------------------------------
(* RandomVar: the sampling collaborator (gerabaldi.models.randomvars)       *)

\* Python None passed where a RandomVar is expected
NoRV == [vals |-> <<>>, pos |-> 0]

\* Deterministic(v): a point mass at v
Deterministic(v) == [vals |-> <<v>>, pos |-> 0]

\* A non-degenerate variable whose successive draws are vs[1], vs[2], ... cyclically
Cyclic(vs) == [vals |-> vs, pos |-> 0]

\* truthiness of "x if x else ..." applied to an optional RandomVar
IsSet(rv) == rv.vals # <<>>

\* rv.sample(n): the next n draws of rv
Sample(rv, n) ==
    [i \in 1..n |-> rv.vals[((rv.pos + i - 1) % Len(rv.vals)) + 1]]

\* the generator after n draws
Advance(rv, n) == [rv EXCEPT !.pos = (@ + n) % Len(rv.vals)]

-----------------------------------------------------------------------------
(* EnvVrtnMdl                                                               *)

VrtnTypes == {"offset", "scaling"}

UnitaryAlwaysZero(vrtn_type) == 0

\* unitary = 0 if self.vrtn_type == 'offset' else 1
Unitary(vrtn_type) == IF vrtn_type = "offset" THEN 0 ELSE 1

\* x_vrtn_mdl if x_vrtn_mdl else Deterministic(unitary)
OrDefault(rv, unitary) == IF IsSet(rv) THEN rv ELSE Deterministic(unitary)

NoMdl ==
    [ok |-> FALSE, name |-> "None", vrtn_type |-> "None", vrtn_op |-> "None",
     batch_vrtn_mdl |-> NoRV, dev_vrtn_mdl |-> NoRV, chp_vrtn_mdl |-> NoRV]

\* EnvVrtnMdl.__init__: the object built, or NoMdl when InvalidTypeError is raised
NewEnvVrtnMdl(dev_vrtn_mdl, chp_vrtn_mdl, batch_vrtn_mdl, vrtn_type, mdl_name) ==
    IF vrtn_type \notin {"scaling", "offset"}
    THEN NoMdl
    ELSE [ok |-> TRUE, name |-> mdl_name, vrtn_type |-> vrtn_type,
          vrtn_op |-> vrtn_type,
          batch_vrtn_mdl |-> OrDefault(batch_vrtn_mdl, Unitary(vrtn_type)),
          dev_vrtn_mdl |-> OrDefault(dev_vrtn_mdl, Unitary(vrtn_type)),
          chp_vrtn_mdl |-> OrDefault(chp_vrtn_mdl, Unitary(vrtn_type))]

\* op = np.multiply if self.vrtn_op == 'scaling' else np.add
VrtnOp(vrtn_op, a, b) == IF vrtn_op = "scaling" THEN a * b ELSE a + b

\* element (l, c, d) of sample(L*C*D).reshape((L, C, D)): row-major order
DevTerm(devS, l, c, d, num_chps, num_devs) ==
    devS[((l - 1) * num_chps + (c - 1)) * num_devs + d]

ChpTermPerLot(chpS, l, c, num_chps) == chpS[(l - 1) * num_chps + 1]

\* element (l, c, 0) of sample(L*C).reshape((L, C, 1)), broadcast over the device axis
ChpTerm(chpS, l, c, num_chps) == chpS[(l - 1) * num_chps + c]

\* vals after the device and chip terms are combined in (lines 122-127)
DevChpGrid(vrtn_op, base_val, devS, chpS, num_devs, num_chps, num_lots) ==
    [l \in 1..num_lots |-> [c \in 1..num_chps |-> [d \in 1..num_devs |->
        VrtnOp(vrtn_op,
               VrtnOp(vrtn_op, base_val, DevTerm(devS, l, c, d, num_chps, num_devs)),
               ChpTerm(chpS, l, c, num_chps))]]]

\* op(vals, b) with b a scalar or a length-1 array: broadcast over the whole grid
BroadcastOp(vrtn_op, vals, b) ==
    [l \in 1..Len(vals) |-> [c \in 1..Len(vals[l]) |-> [d \in 1..Len(vals[l][c]) |->
        VrtnOp(vrtn_op, vals[l][c][d], b)]]]

SensorValsFreshBatch(vrtn_op, base_val, sensor_count, devS2, chpS2, batch_vrtn, batch_rv) ==
    [i \in 1..sensor_count |->
        VrtnOp(vrtn_op,
               VrtnOp(vrtn_op, VrtnOp(vrtn_op, base_val, devS2[i]), chpS2[i]),
               Sample(batch_rv, 1)[1])]

\* op(op(op(np.full(sensor_count, base_val), dev.sample(n)), chp.sample(n)), batch_vrtn)
\* batch_rv is self.batch_vrtn_mdl as it stands once batch_vrtn has been drawn
SensorVals(vrtn_op, base_val, sensor_count, devS2, chpS2, batch_vrtn, batch_rv) ==
    [i \in 1..sensor_count |->
        VrtnOp(vrtn_op,
               VrtnOp(vrtn_op, VrtnOp(vrtn_op, base_val, devS2[i]), chpS2[i]),
               batch_vrtn)]

NoVret ==
    [kind |-> "none", grid |-> <<>>, sensors |-> <<>>,
     base_val |-> 0, sensor_count |-> 0, num_devs |-> 0, num_chps |-> 0, num_lots |-> 0,
     devLog |-> <<>>, chpLog |-> <<>>, batchLog |-> <<>>, mdl |-> NoMdl]

\* EnvVrtnMdl.gen_env_vrtns on object m.  The result records what is returned
\* (kind "grid": a bare array; kind "pair": a 2-tuple), every value drawn from each
\* sub-model in the order drawn, and m with its generators advanced.
GenEnvVrtns(m, base_val, sensor_count, num_devs, num_chps, num_lots) ==
    LET op      == m.vrtn_op
        nCells  == num_lots * num_chps * num_devs
        nChps   == num_lots * num_chps
        devS    == Sample(m.dev_vrtn_mdl, nCells)
        dev1    == Advance(m.dev_vrtn_mdl, nCells)
        chpS    == Sample(m.chp_vrtn_mdl, nChps)
        chp1    == Advance(m.chp_vrtn_mdl, nChps)
        vals    == DevChpGrid(op, base_val, devS, chpS, num_devs, num_chps, num_lots)
        batch_vrtn == Sample(m.batch_vrtn_mdl, 1)[1]
        bat1    == Advance(m.batch_vrtn_mdl, 1)
        args    == [base_val |-> base_val, sensor_count |-> sensor_count,
                    num_devs |-> num_devs, num_chps |-> num_chps, num_lots |-> num_lots]
    IN  IF sensor_count # 0
        THEN LET devS2 == Sample(dev1, sensor_count)
                 chpS2 == Sample(chp1, sensor_count)
             IN  args @@
                 [kind |-> "pair",
                  grid |-> BroadcastOp(op, vals, batch_vrtn),
                  sensors |-> SensorVals(op, base_val, sensor_count, devS2, chpS2,
                                         batch_vrtn, bat1),
                  devLog |-> devS \o devS2, chpLog |-> chpS \o chpS2,
                  batchLog |-> <<batch_vrtn>>,
                  mdl |-> [m EXCEPT !.dev_vrtn_mdl = Advance(dev1, sensor_count),
                                    !.chp_vrtn_mdl = Advance(chp1, sensor_count),
                                    !.batch_vrtn_mdl = bat1]]
        ELSE LET second == Sample(bat1, 1)
             IN  args @@
                 [kind |-> "grid",
                  grid |-> BroadcastOp(op, vals, second[1]),
                  sensors |-> <<>>,
                  devLog |-> devS, chpLog |-> chpS,
                  batchLog |-> <<batch_vrtn>> \o second,
                  mdl |-> [m EXCEPT !.dev_vrtn_mdl = dev1,
                                    !.chp_vrtn_mdl = chp1,
                                    !.batch_vrtn_mdl = Advance(bat1, 1)]]

\* Sub-models a caller may pass to EnvVrtnMdl(...)
RVArgs == {NoRV, Deterministic(0), Deterministic(1), Cyclic(<<2, 3, 5>>)}

BaseVals == {3, 25}

NoMargs == [dev |-> NoRV, chp |-> NoRV, batch |-> NoRV, vrtn_type |-> "None"]

InitVrtn ==
    /\ mdl = NoMdl
    /\ margs = NoMargs
    /\ vret = NoVret

\* m = EnvVrtnMdl(dev, chp, batch, vrtn_type)
EnvVrtnMdlInit ==
    /\ ~mdl.ok
    /\ \E dev \in RVArgs, chp \in RVArgs, bat \in RVArgs, t \in VrtnTypes \cup {"bogus"} :
        /\ mdl' = NewEnvVrtnMdl(dev, chp, bat, t, "None")
        /\ margs' = [dev |-> dev, chp |-> chp, batch |-> bat, vrtn_type |-> t]
        /\ vret' = NoVret

\* m.gen_env_vrtns(base_val, sensor_count, num_devs, num_chps, num_lots)
GenEnvVrtnsCall ==
    /\ mdl.ok
    /\ vret = NoVret
    /\ \E base_val \in BaseVals, sensor_count \in 0..MaxSensors,
          num_devs \in 1..MaxDevs, num_chps \in 1..MaxChps, num_lots \in 1..MaxLots :
        LET r == GenEnvVrtns(mdl, base_val, sensor_count, num_devs, num_chps, num_lots)
        IN  /\ vret' = r
            /\ mdl' = r.mdl
            /\ UNCHANGED margs

\* the caller takes what gen_env_vrtns returned
GenEnvVrtnsReturn ==
    /\ vret # NoVret
    /\ vret' = NoVret
    /\ UNCHANGED <<mdl, margs>>

-----------------------------------------------------------------------------
(* MeasInstrument                                                           *)

\* Measured values: a finite number, +inf or -inf (floats may be infinite)
Fin(n) == [inf |-> 0, v |-> n]
PosInf == [inf |-> 1, v |-> 0]
NegInf == [inf |-> -1, v |-> 0]

\* what math.log10 / floor leave behind when they raise ValueError
Fault == [inf |-> 2, v |-> 0]

\* an optional argument: None, or a value
NoneOpt == [some |-> FALSE, v |-> 0]
NoLims == [some |-> FALSE, v |-> <<>>]
Some(x) == [some |-> TRUE, v |-> x]

\* truthiness of "if self._precision:": None and 0 are both false
PrecisionSet(inst_) == inst_._precision.some /\ inst_._precision.v # 0

\* truthiness of "if self._range:": None is false, a 2-tuple is true
RangeSet(inst_) == inst_._range.some

NoInst == [ok |-> FALSE, name |-> "None", _precision |-> NoneOpt, _error |-> NoRV, _range |-> NoLims]

\* MeasInstrument.__init__
NewMeasInstrument(name, precision, error, meas_lims) ==
    [ok |-> TRUE, name |-> name, _precision |-> precision, _error |-> error, _range |-> meas_lims]

\* x <= y on measured values
VLe(x, y) == x.inf < y.inf \/ (x.inf = y.inf /\ (x.inf # 0 \/ x.v <= y.v))

\* x + n for a finite noise sample n
VAdd(x, n) == IF x.inf # 0 THEN x ELSE Fin(x.v + n)

Abs(n) == IF n < 0 THEN -n ELSE n

RECURSIVE Pow10(_)
Pow10(k) == IF k <= 0 THEN 1 ELSE 10 * Pow10(k - 1)

\* int(floor(log10(n))) for n >= 1
RECURSIVE FloorLog10(_)
FloorLog10(n) == IF n < 10 THEN 0 ELSE 1 + FloorLog10(n \div 10)

\* Python's round(n, ndigits) on an integral value: unchanged for ndigits >= 0,
\* else to the nearest multiple of 10^-ndigits, a tie going to the even multiple
PyRound(n, ndigits) ==
    IF ndigits >= 0 THEN n
    ELSE LET m == Pow10(-ndigits)
             q == n \div m
             r == n % m
         IN  IF 2 * r > m \/ (2 * r = m /\ q % 2 = 1) THEN (q + 1) * m ELSE q * m

SigFigDecimalsOffByOne(precision, n) == precision - FloorLog10(Abs(n))

\* self._precision - int(floor(log10(abs(x)))) - 1
SigFigDecimals(precision, n) == precision - FloorLog10(Abs(n)) - 1

\* x == 0 or np.isinf(x)
PassThrough(x) == x = Fin(0) \/ x.inf # 0

\* lambda x: x if x == 0 or np.isinf(x) else round(x, precision - int(floor(log10(abs(x)))) - 1)
RoundElem(x, precision) ==
    IF PassThrough(x) THEN x
    ELSE IF x.v = 0 THEN Fault
    ELSE Fin(PyRound(x.v, SigFigDecimals(precision, x.v)))

\* meas_vals.add(self._error.sample(len(meas_vals)))
AddError(inst_, s) ==
    IF IsSet(inst_._error)
    THEN LET noise == Sample(inst_._error, Len(s))
         IN  [i \in 1..Len(s) |-> VAdd(s[i], noise[i])]
    ELSE s

\* meas_vals.apply(lambda x: ...)
RoundSeries(inst_, s) ==
    IF PrecisionSet(inst_)
    THEN [i \in 1..Len(s) |-> RoundElem(s[i], inst_._precision.v)]
    ELSE s

\* one element of meas_vals.clip(lower, upper)
ClipElem(x, lower, upper) ==
    IF ~VLe(Fin(lower), x) THEN Fin(lower)
    ELSE IF ~VLe(x, Fin(upper)) THEN Fin(upper)
    ELSE x

\* meas_vals.clip(lower=self._range[0], upper=self._range[1])
ClipSeries(inst_, s) ==
    IF RangeSet(inst_)
    THEN [i \in 1..Len(s) |-> ClipElem(s[i], inst_._range.v[1], inst_._range.v[2])]
    ELSE s

MeasStepsClipFirst(inst_, s) == RoundSeries(inst_, AddError(inst_, ClipSeries(inst_, s)))

\* lines 71-82: noise, then rounding, then clipping
MeasSteps(inst_, s) == ClipSeries(inst_, RoundSeries(inst_, AddError(inst_, s)))

\* pd.Series(true_vals) for input that is not a Series: a scalar becomes a Series of
\* length 1, a 1-D array a Series of its length; pandas raises ValueError ("Data must
\* be 1-dimensional") for an array of 2 or more dimensions
ToSeries(tv) ==
    IF tv.kind = "Series" THEN [ok |-> TRUE, data |-> tv.data]
    ELSE IF tv.kind = "ndarray" /\ Len(tv.shape) # 1 THEN [ok |-> FALSE, data |-> <<>>]
    ELSE [ok |-> TRUE, data |-> tv.data]

NoMret ==
    [status |-> "none", kind |-> "none", shape |-> <<>>, data |-> <<>>,
     arg |-> [kind |-> "none", shape |-> <<>>, data |-> <<>>],
     rounded |-> <<>>, inst |-> NoInst]

\* MeasInstrument.measure(true_vals) on object inst_.  kind is the kind of the value
\* returned ("Series", "ndarray", or "scalar" for the element meas_vals[0]); rounded
\* is meas_vals as it stands when the clipping step is reached.
Measure(inst_, true_vals) ==
    LET rtrn_type == true_vals.kind
        ser == ToSeries(true_vals)
        rounded == RoundSeries(inst_, AddError(inst_, ser.data))
        meas_vals == MeasSteps(inst_, ser.data)
        after == IF IsSet(inst_._error)
                 THEN [inst_ EXCEPT !._error = Advance(@, Len(ser.data))]
                 ELSE inst_
    IN  IF ~ser.ok
        THEN [NoMret EXCEPT !.status = "ValueError", !.arg = true_vals, !.inst = inst_]
        ELSE IF \E i \in 1..Len(meas_vals) : meas_vals[i] = Fault
        THEN [NoMret EXCEPT !.status = "math domain error", !.arg = true_vals,
                            !.inst = after]
        ELSE [status |-> "ok",
              kind |-> IF rtrn_type = "ndarray" THEN "ndarray"
                       ELSE IF rtrn_type \in {"int", "float"} THEN "scalar"
                       ELSE "Series",
              shape |-> IF rtrn_type \in {"int", "float"} THEN <<>> ELSE <<Len(meas_vals)>>,
              data |-> IF rtrn_type \in {"int", "float"} THEN <<meas_vals[1]>> ELSE meas_vals,
              arg |-> true_vals,
              rounded |-> rounded,
              inst |-> after]

(* Arguments *)

MaxLen == 2

Precisions == {NoneOpt, Some(0), Some(1), Some(3)}
Errors == {NoRV, Cyclic(<<1, -1>>)}
Ranges == {NoLims, Some(<<0, 100>>), Some(<<0, 16>>), Some(<<5, 5>>)}

IntVals == {0, -5, 16, 25, 150, 12345}
FloatVals == {Fin(n) : n \in IntVals} \cup {PosInf, NegInf}
ArrVals == {Fin(0), Fin(150), NegInf}

SeqsUpTo(S, n) == UNION {[1..k -> S] : k \in 0..n}

\* the values measure is called with: int, float, 1-D array, Series, and arrays of
\* 2 and 3 dimensions such as the grids gen_env_vrtns returns
TrueVals ==
    {[kind |-> "int", shape |-> <<>>, data |-> <<Fin(n)>>] : n \in IntVals}
    \cup {[kind |-> "float", shape |-> <<>>, data |-> <<x>>] : x \in FloatVals}
    \cup {[kind |-> k, shape |-> <<Len(d)>>, data |-> d] :
              k \in {"ndarray", "Series"}, d \in SeqsUpTo(ArrVals, MaxLen)}
    \cup {[kind |-> "ndarray", shape |-> <<1, n>>, data |-> [i \in 1..n |-> Fin(25)]] :
              n \in 1..MaxLen}
    \cup {[kind |-> "ndarray", shape |-> <<1, 1, n>>, data |-> [i \in 1..n |-> Fin(25)]] :
              n \in 1..MaxLen}

InitMeas ==
    /\ inst = NoInst
    /\ mret = NoMret

\* inst = MeasInstrument(name, precision, error, meas_lims)
MeasInstrumentInit ==
    /\ ~inst.ok
    /\ \E precision \in Precisions, error \in Errors, meas_lims \in Ranges :
        /\ inst' = NewMeasInstrument("generic", precision, error, meas_lims)
        /\ mret' = NoMret

\* inst.measure(true_vals)
MeasureCall ==
    /\ inst.ok
    /\ mret = NoMret
    /\ \E true_vals \in TrueVals :
        LET r == Measure(inst, true_vals)
        IN  /\ mret' = r
            /\ inst' = r.inst

\* the caller takes what measure returned
MeasureReturn ==
    /\ mret # NoMret
    /\ mret' = NoMret
    /\ UNCHANGED inst

-----------------------------------------------------------------------------
(* PhysTestEnv                                                              *)

\* Objects are referred to by identity; heap maps an identity to the object.
VrtnIds == {"v1", "v2"}
InstmIds == {"i1", "i2"}

\* an attribute value: a reference to an object, a string, or a bound method
Ref(kind, id) == [kind |-> kind, ref |-> id]

\* what the class itself provides to getattr(self, ...)
ClassAttrs == {"__init__", "get_meas_instm", "get_vrtn_mdl", "gen_env_cond_vals"}

NoEnv == [ok |-> FALSE, attrs |-> <<>>]

\* an env_vrtns / meas_instms argument: None, a dict (its items in insertion order,
\* each <<key, object>>), or a list of objects
ArgNone == [form |-> "None", items |-> <<>>]
ArgDict(items) == [form |-> "dict", items |-> items]
ArgList(items) == [form |-> "list", items |-> items]

\* for prm in d: d[prm].name = prm
RECURSIVE SetNames(_, _)
SetNames(h, items) ==
    IF items = <<>> THEN h
    ELSE SetNames([h EXCEPT ![items[1][2]].name = items[1][1]], Tail(items))

\* lines 174-186: the argument as a list of objects
AsList(arg) ==
    IF arg.form = "dict" THEN [i \in 1..Len(arg.items) |-> arg.items[i][2]]
    ELSE arg.items

\* lines 176-179: the heap once a dict argument has named its objects
Named(h, arg) == IF arg.form = "dict" THEN SetNames(h, arg.items) ELSE h

\* setattr(self, name, value)
SetAttr(attrs, name, value) ==
    [a \in DOMAIN attrs \cup {name} |-> IF a = name THEN value ELSE attrs[a]]

\* for prm in objs: setattr(self, prm.name + suffix, prm)
SetAttrs(attrs, h, ids, suffix, kind) ==
    LET RECURSIVE go(_, _)
        go(acc, rest) ==
            IF rest = <<>> THEN acc
            ELSE go(SetAttr(acc, h[rest[1]].name \o suffix, Ref(kind, rest[1])), Tail(rest))
    IN  go(attrs, ids)

\* PhysTestEnv.__init__: the environment built and the heap it leaves
NewPhysTestEnv(h, env_vrtns, meas_instms, env_name) ==
    LET h1 == Named(h, env_vrtns)
        h2 == Named(h1, meas_instms)
        a0 == SetAttr(<<>>, "name", Ref("str", env_name))
        a1 == SetAttrs(a0, h2, AsList(env_vrtns), "_var", "EnvVrtnMdl")
        a2 == SetAttrs(a1, h2, AsList(meas_instms), "_instm", "MeasInstrument")
    IN  [heap |-> h2, env |-> [ok |-> TRUE, attrs |-> a2]]

\* getattr(self, name, default): the instance's own attributes, then the class's
GetAttr(e, name, default) ==
    IF name \in DOMAIN e.attrs THEN e.attrs[name]
    ELSE IF name \in ClassAttrs THEN Ref("method", name)
    ELSE default

\* body of get_meas_instm: getattr(self, prm + '_instm', MeasInstrument(prm))
GetMeasInstm(e, prm) == GetAttr(e, prm \o "_instm", Ref("MeasInstrument", "fresh"))

\* body of get_vrtn_mdl: getattr(self, prm + '_var', EnvVrtnMdl())
GetVrtnMdl(e, prm) == GetAttr(e, prm \o "_var", Ref("EnvVrtnMdl", "fresh"))

\* the object a returned value refers to
Deref(h, val, prm) ==
    IF val.ref = "fresh"
    THEN IF val.kind = "EnvVrtnMdl" THEN NewEnvVrtnMdl(NoRV, NoRV, NoRV, "offset", "None")
         ELSE NewMeasInstrument(prm, NoneOpt, NoRV, NoLims)
    ELSE IF val.kind \in {"EnvVrtnMdl", "MeasInstrument"} THEN h[val.ref]
    ELSE NoInst

NoLret == [status |-> "none", call |-> "none", prm |-> "none", val |-> Ref("none", "none"), obj |-> NoInst]

\* self.<meth>(prm) for meth get_meas_instm or get_vrtn_mdl: the attribute meth is
\* looked up on the instance first, and calling anything but the method raises TypeError
CallLookup(e, h, meth, prm) ==
    LET target == GetAttr(e, meth, Ref("missing", meth))
        val == IF meth = "get_meas_instm" THEN GetMeasInstm(e, prm) ELSE GetVrtnMdl(e, prm)
    IN  IF target.kind # "method"
        THEN [NoLret EXCEPT !.status = "TypeError", !.call = meth, !.prm = prm]
        ELSE [status |-> "ok", call |-> meth, prm |-> prm, val |-> val,
              obj |-> Deref(h, val, prm)]

(* gen_env_cond_vals *)

Arr(shape, data) == [shape |-> shape, data |-> data]

\* num_vals = (1, 1, num_vals) if type(num_vals) == int else num_vals
NumValsTuple(num_vals) ==
    IF num_vals.form = "int" THEN <<1, 1, num_vals.n>> ELSE num_vals.t

\* "not sensor_counts": None and the empty dict are both false
HasSensorCounts(sensor_counts) == sensor_counts.some /\ DOMAIN sensor_counts.v # {}

NoCounts == [some |-> FALSE, v |-> <<>>]

NoCargs ==
    [base_vals |-> <<>>, num_vals |-> [form |-> "int", n |-> 1, t |-> <<>>],
     sensor_counts |-> NoCounts]

NoCret ==
    [status |-> "none", true_vals |-> <<>>, sensor_vals |-> <<>>, heap |-> <<>>]

\* "true_vals[cond], sensor_vals[cond] = <result>": a 2-tuple unpacks into its two
\* members; a bare array unpacks along its first axis, which must have length 2
UnpackPair(r) ==
    IF r.kind = "pair"
    THEN [ok |-> TRUE,
          true |-> Arr(<<r.num_lots, r.num_chps, r.num_devs>>, r.grid),
          sensor |-> Arr(<<r.sensor_count>>, r.sensors)]
    ELSE IF r.num_lots = 2
    THEN [ok |-> TRUE,
          true |-> Arr(<<r.num_chps, r.num_devs>>, r.grid[1]),
          sensor |-> Arr(<<r.num_chps, r.num_devs>>, r.grid[2])]
    ELSE [ok |-> FALSE, true |-> Arr(<<>>, <<>>), sensor |-> Arr(<<>>, <<>>)]

\* the dict d with d[key] = value assigned
DictSet(d, key, value) == [k \in DOMAIN d \cup {key} |-> IF k = key THEN value ELSE d[k]]

\* PhysTestEnv.gen_env_cond_vals(base_vals, num_vals, sensor_counts) on environment
\* e with heap h; base_vals is the dict's items in order, each <<cond, value>>
GenEnvCondVals(e, h, base_vals, num_vals, sensor_counts) ==
    LET nv == NumValsTuple(num_vals)
        RECURSIVE loop(_, _)
        loop(st, rest) ==
            IF rest = <<>> \/ st.status # "none" THEN st
            ELSE LET cond == rest[1][1]
                     base == rest[1][2]
                     val  == GetVrtnMdl(e, cond)
                     m    == Deref(st.heap, val, cond)
                     plain == ~HasSensorCounts(sensor_counts)
                                 \/ cond \notin DOMAIN sensor_counts.v
                     r    == IF plain
                             THEN GenEnvVrtns(m, base, 0, nv[3], nv[2], nv[1])
                             ELSE GenEnvVrtns(m, base, sensor_counts.v[cond], nv[3], nv[2], nv[1])
                     h1   == IF val.ref = "fresh" THEN st.heap
                             ELSE [st.heap EXCEPT ![val.ref] = r.mdl]
                     u    == UnpackPair(r)
                 IN  IF plain
                     THEN loop([st EXCEPT !.heap = h1,
                                   !.true_vals = DictSet(@, cond,
                                       Arr(<<r.num_lots, r.num_chps, r.num_devs>>, r.grid))],
                               Tail(rest))
                     ELSE IF ~u.ok
                     THEN [st EXCEPT !.status = "ValueError", !.heap = h1]
                     ELSE loop([st EXCEPT !.heap = h1,
                                   !.true_vals = DictSet(@, cond, u.true),
                                   !.sensor_vals = DictSet(@, cond, u.sensor)],
                               Tail(rest))
        done == loop([NoCret EXCEPT !.heap = h], base_vals)
    IN  IF done.status # "none" THEN done
        ELSE IF ~HasSensorCounts(sensor_counts)
        THEN [done EXCEPT !.status = "ok", !.sensor_vals = <<>>]
        ELSE [done EXCEPT !.status = "ok"]

(* Arguments *)

MaxReg == 2

PrmNames == {"temp", "vdd", "get_meas"}

\* the sequences over S of length at most n without a repeated first component
DictItems(Keys, Ids, n) ==
    {d \in SeqsUpTo(Keys \X Ids, n) :
        \A i, j \in 1..Len(d) : i # j => d[i][1] # d[j][1]}

CtorArgs(Ids) ==
    {ArgNone}
    \cup {ArgDict(d) : d \in DictItems(PrmNames, Ids, MaxReg)}
    \cup {ArgList(l) : l \in SeqsUpTo(Ids, MaxReg)}

\* The objects a caller has at hand before building an environment; the list form
\* takes them as they are named here
Heaps ==
    {[v1 |-> NewEnvVrtnMdl(NoRV, NoRV, Cyclic(<<2, 3>>), "offset", "temp"),
      v2 |-> NewEnvVrtnMdl(Cyclic(<<2, 3>>), NoRV, NoRV, "scaling", n2),
      i1 |-> NewMeasInstrument("temp", Some(3), NoRV, NoLims),
      i2 |-> NewMeasInstrument(m2, NoneOpt, NoRV, Some(<<0, 100>>))] :
        n2 \in {"temp", "vdd"}, m2 \in {"temp", "vdd"}}

NoCtor == [env_vrtns |-> ArgNone, meas_instms |-> ArgNone]

InitEnv ==
    /\ heap \in Heaps
    /\ env = NoEnv
    /\ ctor = NoCtor
    /\ lret = NoLret
    /\ cret = NoCret
    /\ cargs = NoCargs

\* The environments and arguments gen_env_cond_vals is exercised with
CondNames == {"temp", "vdd"}
BaseOf == [c \in CondNames |-> IF c = "temp" THEN 25 ELSE 3]
BaseValsDicts ==
    {[i \in 1..Len(ks) |-> <<ks[i], BaseOf[ks[i]]>>] :
        ks \in {q \in SeqsUpTo(CondNames, Cardinality(CondNames)) :
                   \A i, j \in 1..Len(q) : i # j => q[i] # q[j]}}
NumVals ==
    {[form |-> "int", n |-> n, t |-> <<>>] : n \in 1..MaxDevs}
    \cup {[form |-> "tuple", n |-> 0, t |-> <<l, c, d>>] :
              l \in 1..MaxLots, c \in 1..MaxChps, d \in 1..MaxDevs}
SensorCounts ==
    {NoCounts} \cup {Some(f) : f \in UNION {[K -> 0..MaxSensors] : K \in SUBSET CondNames}}
CondCtorArgs ==
    {ArgNone, ArgDict(<<<<"temp", "v1">>>>), ArgDict(<<<<"temp", "v1">>, <<"vdd", "v2">>>>),
     ArgList(<<"v2", "v1">>)}

\* an environment has been built
InitCond ==
    /\ lret = NoLret
    /\ cret = NoCret
    /\ \E h \in Heaps, env_vrtns \in CondCtorArgs :
        LET r == NewPhysTestEnv(h, env_vrtns, ArgNone, "unspecified")
        IN  /\ h["i2"].name = "vdd"
            /\ heap = r.heap
            /\ env = r.env
            /\ ctor = [env_vrtns |-> env_vrtns, meas_instms |-> ArgNone]
    /\ cargs = NoCargs

\* env.gen_env_cond_vals(base_vals, num_vals, sensor_counts)
GenEnvCondValsCall ==
    /\ env.ok
    /\ cret = NoCret
    /\ \E base_vals \in BaseValsDicts, num_vals \in NumVals, sensor_counts \in SensorCounts :
        LET r == GenEnvCondVals(env, heap, base_vals, num_vals, sensor_counts)
        IN  /\ cret' = r
            /\ heap' = r.heap
            /\ cargs' = [base_vals |-> base_vals, num_vals |-> num_vals,
                         sensor_counts |-> sensor_counts]
    /\ UNCHANGED <<env, ctor, lret>>

\* the caller takes what gen_env_cond_vals returned
GenEnvCondValsReturn ==
    /\ cret # NoCret
    /\ cret' = NoCret
    /\ cargs' = NoCargs
    /\ UNCHANGED <<heap, env, ctor, lret>>

\* env = PhysTestEnv(env_vrtns, meas_instms)
PhysTestEnvInit ==
    /\ ~env.ok
    /\ UNCHANGED <<lret, cret, cargs>>
    /\ \E env_vrtns \in CtorArgs(VrtnIds), meas_instms \in CtorArgs(InstmIds) :
        LET r == NewPhysTestEnv(heap, env_vrtns, meas_instms, "unspecified")
        IN  /\ env' = r.env
            /\ heap' = r.heap
            /\ ctor' = [env_vrtns |-> env_vrtns, meas_instms |-> meas_instms]

\* env.get_vrtn_mdl(prm)
GetVrtnMdlCall ==
    /\ env.ok
    /\ lret = NoLret
    /\ \E prm \in PrmNames : lret' = CallLookup(env, heap, "get_vrtn_mdl", prm)
    /\ UNCHANGED <<heap, env, ctor, cret, cargs>>

\* env.get_meas_instm(prm)
GetMeasInstmCall ==
    /\ env.ok
    /\ lret = NoLret
    /\ \E prm \in PrmNames : lret' = CallLookup(env, heap, "get_meas_instm", prm)
    /\ UNCHANGED <<heap, env, ctor, cret, cargs>>

\* the caller takes what the lookup returned
LookupReturn ==
    /\ lret # NoLret
    /\ lret' = NoLret
    /\ UNCHANGED <<heap, env, ctor, cret, cargs>>

-----------------------------------------------------------------------------
(* Specification of EnvVrtnMdl: construct a model, call gen_env_vrtns on it  *)

IdleMeas == inst = NoInst /\ mret = NoMret
IdleEnv == heap = <<>> /\ env = NoEnv /\ ctor = NoCtor /\ lret = NoLret /\ cret = NoCret
           /\ cargs = NoCargs

NextVrtn ==
    \/ EnvVrtnMdlInit /\ UNCHANGED <<inst, mret, heap, env, ctor, lret, cret, cargs>>
    \/ GenEnvVrtnsCall /\ UNCHANGED <<inst, mret, heap, env, ctor, lret, cret, cargs>>
    \/ GenEnvVrtnsReturn /\ UNCHANGED <<inst, mret, heap, env, ctor, lret, cret, cargs>>

StartVrtn == InitVrtn /\ IdleMeas /\ IdleEnv

SpecVrtn == StartVrtn /\ [][NextVrtn]_vars

\* the operator the claims speak of, written out: + for 'offset', * for 'scaling'
Combine(t, a, b) == IF t = "offset" THEN a + b ELSE a * b

Called == vret.kind \in {"grid", "pair"}

GridShapeOk ==
    /\ Len(vret.grid) = vret.num_lots
    /\ \A l \in 1..Len(vret.grid) :
        /\ Len(vret.grid[l]) = vret.num_chps
        /\ \A c \in 1..Len(vret.grid[l]) : Len(vret.grid[l][c]) = vret.num_devs

Cells == {<<l, c, d>> : l \in 1..vret.num_lots, c \in 1..vret.num_chps, d \in 1..vret.num_devs}

NumCells == vret.num_lots * vret.num_chps * vret.num_devs

\* cell x of the grid is base (+) the x-th device draw (+) the chip draw of (l, c) (+) b
CellIs(x, b) ==
    LET t == vret.mdl.vrtn_type
        di == ((x[1] - 1) * vret.num_chps + (x[2] - 1)) * vret.num_devs + x[3]
        ci == (x[1] - 1) * vret.num_chps + x[2]
    IN  vret.grid[x[1]][x[2]][x[3]] =
            Combine(t, Combine(t, Combine(t, vret.base_val, vret.devLog[di]), vret.chpLog[ci]), b)

\* sensor element i is base (+) a device draw of its own (+) a chip draw of its own (+) b
SensorIs(i, b) ==
    LET t == vret.mdl.vrtn_type
    IN  vret.sensors[i] =
            Combine(t, Combine(t, Combine(t, vret.base_val, vret.devLog[NumCells + i]),
                               vret.chpLog[vret.num_lots * vret.num_chps + i]), b)

IsDet(rv) == Len(rv.vals) = 1

\* C1: with sensor_count > 0 one batch draw is made, and that one draw is the batch
\* term of every grid cell and of every sensor element; sensor element i is
\* base (+) dev_i (+) chip_i (+) batch over sensor_count further device and chip
\* draws; with deterministic device and chip models every grid cell and every
\* sensor element carry the same residual, i.e. are equal.
ThmC1_SharedBatch ==
    vret.kind = "pair" =>
        /\ vret.sensor_count > 0
        /\ Len(vret.batchLog) = 1
        /\ Len(vret.sensors) = vret.sensor_count
        /\ Len(vret.devLog) = NumCells + vret.sensor_count
        /\ Len(vret.chpLog) = vret.num_lots * vret.num_chps + vret.sensor_count
        /\ \A x \in Cells : CellIs(x, vret.batchLog[1])
        /\ \A i \in 1..vret.sensor_count : SensorIs(i, vret.batchLog[1])
        /\ (IsDet(vret.mdl.dev_vrtn_mdl) /\ IsDet(vret.mdl.chp_vrtn_mdl)) =>
               \A x \in Cells, i \in 1..vret.sensor_count :
                   vret.grid[x[1]][x[2]][x[3]] = vret.sensors[i]

WitC1_SharedBatch ==
    /\ vret.kind = "pair"
    /\ vret.sensor_count = 2
    /\ ~IsDet(vret.mdl.batch_vrtn_mdl)
    /\ IsDet(vret.mdl.dev_vrtn_mdl) /\ IsDet(vret.mdl.chp_vrtn_mdl)
    /\ vret.num_devs = 2

\* C2: the grid has shape (num_lots, num_chps, num_devs); cell (l, c, d) is
\* base (+) dev[l,c,d] (+) chip[l,c] (+) batch with + for 'offset' and * for
\* 'scaling', one batch draw b being common to all cells; the grid consumes one
\* device draw per cell and one chip draw per (lot, chip) pair (the only further
\* device and chip draws are the sensor_count ones made for the sensors).
ThmC2_GridCells ==
    Called =>
        /\ GridShapeOk
        /\ \E k \in 1..Len(vret.batchLog) : \A x \in Cells : CellIs(x, vret.batchLog[k])
        /\ Len(vret.devLog) = NumCells + vret.sensor_count
        /\ Len(vret.chpLog) = vret.num_lots * vret.num_chps + vret.sensor_count
        /\ vret.sensor_count = 0 => vret.kind = "grid"

WitC2_GridCells ==
    /\ vret.kind = "grid"
    /\ vret.num_lots = 2 /\ vret.num_chps = 2 /\ vret.num_devs = 2
    /\ ~IsDet(vret.mdl.dev_vrtn_mdl) /\ ~IsDet(vret.mdl.chp_vrtn_mdl)
    /\ vret.mdl.vrtn_type = "scaling"
    /\ vret.grid[1][1][1] # vret.grid[1][1][2]
    /\ vret.grid[1][1][1] # vret.grid[1][2][1]

UnitOf(t) == IF t = "scaling" THEN 1 ELSE 0

NoVariation(rv, t) == rv = NoRV \/ rv = Deterministic(UnitOf(t))

\* C9: a level not supplied at construction becomes a point mass at the unit of the
\* combining operator (0 for offset, 1 for scaling); with all three levels
\* unspecified or deterministic at the unit, every grid cell and every sensor
\* element equals base exactly.
ThmC9_UnitDefaults ==
    mdl.ok =>
        /\ margs.dev = NoRV => mdl.dev_vrtn_mdl.vals = <<UnitOf(margs.vrtn_type)>>
        /\ margs.chp = NoRV => mdl.chp_vrtn_mdl.vals = <<UnitOf(margs.vrtn_type)>>
        /\ margs.batch = NoRV => mdl.batch_vrtn_mdl.vals = <<UnitOf(margs.vrtn_type)>>
        /\ ( /\ Called
             /\ NoVariation(margs.dev, margs.vrtn_type)
             /\ NoVariation(margs.chp, margs.vrtn_type)
             /\ NoVariation(margs.batch, margs.vrtn_type) ) =>
               /\ GridShapeOk
               /\ \A x \in Cells : vret.grid[x[1]][x[2]][x[3]] = vret.base_val
               /\ Len(vret.sensors) = vret.sensor_count
               /\ \A i \in 1..Len(vret.sensors) : vret.sensors[i] = vret.base_val

WitC9_UnitDefaults ==
    /\ vret.kind = "pair"
    /\ margs.vrtn_type = "scaling"
    /\ margs.dev = NoRV /\ margs.chp = NoRV /\ margs.batch = NoRV
    /\ vret.num_lots = 2 /\ vret.num_devs = 2
    /\ vret.sensor_count = 2

\* C10: every call draws exactly one sample from batch_vrtn_mdl, whether
\* sensor_count is 0 or positive, and that sample is the batch term of every cell.
CexC10_OneBatchDraw ==
    Called =>
        /\ Len(vret.batchLog) = 1
        /\ \A x \in Cells : CellIs(x, vret.batchLog[1])

-----------------------------------------------------------------------------
(* Specification of MeasInstrument: construct an instrument, call measure    *)

IdleVrtn == mdl = NoMdl /\ margs = NoMargs /\ vret = NoVret

NextMeas ==
    \/ MeasInstrumentInit /\ UNCHANGED <<mdl, margs, vret, heap, env, ctor, lret, cret, cargs>>
    \/ MeasureCall /\ UNCHANGED <<mdl, margs, vret, heap, env, ctor, lret, cret, cargs>>
    \/ MeasureReturn /\ UNCHANGED <<mdl, margs, vret, heap, env, ctor, lret, cret, cargs>>

StartMeas == InitMeas /\ IdleVrtn /\ IdleEnv

SpecMeas == StartMeas /\ [][NextMeas]_vars

Measured == mret.status # "none"

\* C6: measure returns a value of the same kind and size as its input: a scalar
\* for a scalar, an array with the same number of elements for an array, a Series
\* of the same length for a Series, whatever the instrument's configuration.
CexC6_SameKindAndSize ==
    Measured =>
        /\ mret.status = "ok"
        /\ mret.arg.kind \in {"int", "float"} => mret.kind = "scalar"
        /\ mret.arg.kind = "ndarray" => mret.kind = "ndarray"
        /\ mret.arg.kind = "Series" => mret.kind = "Series"
        /\ Len(mret.data) = Len(mret.arg.data)

InRange(x, r) == VLe(Fin(r[1]), x) /\ VLe(x, Fin(r[2]))

\* C7: clipping is the last step: with a range (min, max), min <= max, every
\* returned element lies in [min, max] whatever the error and precision; an element
\* already in range after noise and rounding is returned as it is; range (0, 100)
\* maps 150 to 100 and -5 to 0.
ThmC7_ClipLast ==
    (mret.status = "ok" /\ mret.inst._range.some) =>
        LET r == mret.inst._range.v
        IN  /\ r[1] <= r[2]
            /\ Len(mret.data) = Len(mret.rounded)
            /\ \A i \in 1..Len(mret.data) :
                /\ InRange(mret.data[i], r)
                /\ InRange(mret.rounded[i], r) => mret.data[i] = mret.rounded[i]
                /\ (r = <<0, 100>> /\ mret.rounded[i] = Fin(150)) => mret.data[i] = Fin(100)
                /\ (r = <<0, 100>> /\ mret.rounded[i] = Fin(-5)) => mret.data[i] = Fin(0)

WitC7_ClipLast ==
    /\ mret.status = "ok"
    /\ mret.inst._range = Some(<<0, 16>>)
    /\ mret.inst._precision = Some(1)
    /\ IsSet(mret.inst._error)
    /\ mret.arg.data = <<Fin(16)>>
    /\ mret.rounded = <<Fin(20)>>
    /\ mret.data = <<Fin(16)>>

\* number of decimal digits of n >= 1
RECURSIVE Digits(_)
Digits(n) == IF n < 10 THEN 1 ELSE 1 + Digits(n \div 10)

\* y is x rounded to p significant figures: a multiple of the unit of x's p-th
\* digit, nearest to x, the even multiple on a tie (integral x: no unit below 1)
IsSigFigRounding(x, y, p) ==
    LET k == IF Digits(Abs(x)) > p THEN Digits(Abs(x)) - p ELSE 0
        u == Pow10(k)
    IN  /\ y % u = 0
        /\ 2 * Abs(y - x) <= u
        /\ 2 * Abs(y - x) = u => (y \div u) % 2 = 0

\* C8: with a precision p (no error, no range) each element is rounded to p
\* significant figures; zero and infinite values pass through unchanged and no
\* math-domain fault is raised; p = 3 maps 12345 to 12300.
ThmC8_SigFigs ==
    /\ mret.status # "math domain error"
    /\ ( /\ mret.status = "ok"
         /\ PrecisionSet(mret.inst)
         /\ ~IsSet(mret.inst._error)
         /\ ~mret.inst._range.some ) =>
            /\ Len(mret.data) = Len(mret.arg.data)
            /\ \A i \in 1..Len(mret.data) :
                LET x == mret.arg.data[i]
                    y == mret.data[i]
                    p == mret.inst._precision.v
                IN  /\ (x = Fin(0) \/ x.inf # 0) => y = x
                    /\ (x # Fin(0) /\ x.inf = 0) =>
                           y.inf = 0 /\ IsSigFigRounding(x.v, y.v, p)
                    /\ (p = 3 /\ x = Fin(12345)) => y = Fin(12300)

WitC8_SigFigs ==
    /\ mret.status = "ok"
    /\ mret.inst._precision = Some(3)
    /\ ~IsSet(mret.inst._error) /\ ~mret.inst._range.some
    /\ mret.arg.data = <<Fin(12345)>>
    /\ mret.data = <<Fin(12300)>>

-----------------------------------------------------------------------------
(* Specification of the PhysTestEnv registry: build an environment, look up  *)

NextEnv ==
    \/ PhysTestEnvInit /\ UNCHANGED <<mdl, margs, vret, inst, mret>>
    \/ GetVrtnMdlCall /\ UNCHANGED <<mdl, margs, vret, inst, mret>>
    \/ GetMeasInstmCall /\ UNCHANGED <<mdl, margs, vret, inst, mret>>
    \/ LookupReturn /\ UNCHANGED <<mdl, margs, vret, inst, mret>>

StartEnv == InitEnv /\ IdleVrtn /\ IdleMeas

SpecEnv == StartEnv /\ [][NextEnv]_vars

\* the object is an EnvVrtnMdl none of whose levels varies
IsIdealVrtnMdl(o) ==
    /\ o.ok /\ o.vrtn_type \in VrtnTypes
    /\ o.dev_vrtn_mdl = Deterministic(UnitOf(o.vrtn_type))
    /\ o.chp_vrtn_mdl = Deterministic(UnitOf(o.vrtn_type))
    /\ o.batch_vrtn_mdl = Deterministic(UnitOf(o.vrtn_type))

\* the object is a MeasInstrument without error, precision and range, and its
\* measure returns what it is given
IsIdealInstm(o) ==
    /\ o.ok
    /\ ~o._precision.some /\ ~IsSet(o._error) /\ ~o._range.some
    /\ \A tv \in TrueVals :
        Len(tv.shape) <= 1 =>
            Measure(o, tv).status = "ok" /\ Measure(o, tv).data = tv.data

\* the objects registered at construction, in registration order
RegisteredVrtns == AsList(ctor.env_vrtns)
RegisteredInstms == AsList(ctor.meas_instms)
InSeq(x, q) == \E i \in 1..Len(q) : q[i] = x

\* C4: get_vrtn_mdl(p) and get_meas_instm(p) never fail and always return a
\* variation model / a measurement instrument: the object registered under
\* exactly p if there is one, else a fresh ideal default.
CexC4_LookupTotal ==
    lret.status # "none" =>
        /\ lret.status = "ok"
        /\ lret.call = "get_vrtn_mdl" =>
            /\ lret.val.kind = "EnvVrtnMdl"
            /\ IF \E id \in VrtnIds : InSeq(id, RegisteredVrtns) /\ heap[id].name = lret.prm
               THEN InSeq(lret.val.ref, RegisteredVrtns) /\ heap[lret.val.ref].name = lret.prm
               ELSE lret.val.ref = "fresh" /\ IsIdealVrtnMdl(lret.obj)
        /\ lret.call = "get_meas_instm" =>
            /\ lret.val.kind = "MeasInstrument"
            /\ IF \E id \in InstmIds : InSeq(id, RegisteredInstms) /\ heap[id].name = lret.prm
               THEN InSeq(lret.val.ref, RegisteredInstms) /\ heap[lret.val.ref].name = lret.prm
               ELSE lret.val.ref = "fresh" /\ IsIdealInstm(lret.obj)

\* C5: after construction from a mapping {p_i -> obj_i}, get_vrtn_mdl(p_i) returns
\* obj_i for every key of env_vrtns and get_meas_instm(p_i) returns obj_i for every
\* key of meas_instms, also when one object is the value of two keys.
CexC5_MappingRegistersEveryKey ==
    env.ok =>
        /\ ctor.env_vrtns.form = "dict" =>
            \A i \in 1..Len(ctor.env_vrtns.items) :
                GetVrtnMdl(env, ctor.env_vrtns.items[i][1])
                    = Ref("EnvVrtnMdl", ctor.env_vrtns.items[i][2])
        /\ ctor.meas_instms.form = "dict" =>
            \A i \in 1..Len(ctor.meas_instms.items) :
                GetMeasInstm(env, ctor.meas_instms.items[i][1])
                    = Ref("MeasInstrument", ctor.meas_instms.items[i][2])

-----------------------------------------------------------------------------
(* Specification of PhysTestEnv.gen_env_cond_vals                            *)

NextCond ==
    \/ GenEnvCondValsCall /\ UNCHANGED <<mdl, margs, vret, inst, mret>>
    \/ GenEnvCondValsReturn /\ UNCHANGED <<mdl, margs, vret, inst, mret>>

StartCond == InitCond /\ IdleVrtn /\ IdleMeas

SpecCond == StartCond /\ [][NextCond]_vars

CondKeys == {cargs.base_vals[i][1] : i \in 1..Len(cargs.base_vals)}

WantShape ==
    IF cargs.num_vals.form = "int" THEN <<1, 1, cargs.num_vals.n>> ELSE cargs.num_vals.t

WantSensorKeys ==
    IF cargs.sensor_counts.some THEN CondKeys \cap DOMAIN cargs.sensor_counts.v ELSE {}

\* what C3 promises of a returned pair (true_vals, sensor_vals)
CondValsAsPromised ==
    /\ cret.status = "ok"
    /\ DOMAIN cret.true_vals = CondKeys
    /\ \A c \in DOMAIN cret.true_vals : cret.true_vals[c].shape = WantShape
    /\ DOMAIN cret.sensor_vals = WantSensorKeys
    /\ \A c \in DOMAIN cret.sensor_vals :
        /\ cret.sensor_vals[c].shape = <<cargs.sensor_counts.v[c]>>
        /\ Len(cret.sensor_vals[c].data) = cargs.sensor_counts.v[c]

\* C3: for every base_vals, every shape and every sensor_counts with non-negative
\* counts, gen_env_cond_vals returns without failing true_vals over exactly the keys
\* of base_vals, each a grid of the requested shape, and sensor_vals over exactly
\* the conditions listed in sensor_counts, each of length sensor_counts[cond].
CexC3_CondVals == cret # NoCret => CondValsAsPromised

=============================================================================
